---- MODULE Spec2Model ----
(***************************************************************************)
(* diff_splitter: a unified diff read from standard input is split into    *)
(* one file per diff block (src/src/main.rs).                              *)
(*                                                                         *)
(* Text is modelled as sequences of one-character strings.  An input line  *)
(* is a sequence of bytes; the byte "xFF" stands for a byte that is not    *)
(* valid UTF-8 and "uFFFD" for the replacement character that              *)
(* String::from_utf8_lossy puts in its place.                              *)
(***************************************************************************)
EXTENDS Integers, Sequences, FiniteSets, TLC

VARIABLES
    args,                \* Args: [strip, mask_linenum, skip_header]
    header_state,        \* HeaderState of the read loop
    current_file_lines,  \* Vec<String>: the lines of the open record
    full_path,           \* Option<PathBuf>: <<>> is None, <<p>> is Some(p)
    is_binary,           \* bool
    binary_file_lines,   \* Vec<String>: the binary markers so far
    files,               \* the sink: output path -> the chunks written to it
    binary_file,         \* Option: <<>> or <<lines of __BINARY_FILES__.txt>>
    pc,                  \* "reading", "done", "format_error", "io_error"
    nread,               \* history: number of lines read
    last_read,           \* history: the last line read (raw bytes), <<>> if none
    block,               \* history: raw input lines since the open record's diff line
    calls,               \* history: one entry per call of process_file_diff
    opened,              \* history: number of records opened so far
    bin_owner,           \* history: for each binary marker, the record it came from
    from_path,           \* resolver run: the "--- " path
    to_path,             \* resolver run: the "+++ " path
    strip_arg,           \* resolver run: args.strip
    strip_value,         \* resolver run: <<>> or <<resolved strip level>>
    stripped_path,       \* resolver run: <<>> or <<output path>>
    hunk,                \* masker run: the parts the input line is made of
    hunk_out             \* masker run: <<>> or <<the chunk written for it>>

vars == <<args, header_state, current_file_lines, full_path, is_binary,
          binary_file_lines, files, binary_file, pc, nread, last_read,
          block, calls, opened, bin_owner, from_path, to_path, strip_arg,
          strip_value, stripped_path, hunk, hunk_out>>

mainVars == <<args, header_state, current_file_lines, full_path, is_binary,
              binary_file_lines, files, binary_file, pc, nread, last_read,
              block, calls, opened, bin_owner>>
pathVars == <<from_path, to_path, strip_arg, strip_value, stripped_path>>
maskVars == <<hunk, hunk_out>>

-----------------------------------------------------------------------------
(* Bounds *)

\* Number of input lines read by one run of the read loop.
MaxLines == 6
\* Number of lines of one record (its header and body lines).
MaxRecordLines == 5
\* Number of components of a generated path.
MaxComps == 2
\* Number of digits of a generated line number or count.
MaxDigits == 2

-----------------------------------------------------------------------------
(* str: starts_with, trim_end, trim, trim_start_matches, split *)

\* char::is_whitespace, on the characters of the model's alphabet
IsWhitespace(c) == c \in {" ", "\t", "\n", "\r"}

IsDigit(c) == c \in {"0", "1", "2", "3", "4", "5", "6", "7", "8", "9"}

starts_with(s, p) == Len(s) >= Len(p) /\ SubSeq(s, 1, Len(p)) = p

Drop(s, n) == SubSeq(s, n + 1, Len(s))

RECURSIVE trim_end(_)
trim_end(s) ==
    IF s # <<>> /\ IsWhitespace(s[Len(s)]) THEN trim_end(SubSeq(s, 1, Len(s) - 1))
    ELSE s

RECURSIVE trim_start(_)
trim_start(s) ==
    IF s # <<>> /\ IsWhitespace(s[1]) THEN trim_start(Tail(s)) ELSE s

trim(s) == trim_end(trim_start(s))

\* str::trim_start_matches: the prefix is removed as often as it repeats
RECURSIVE trim_start_matches(_, _)
trim_start_matches(s, p) ==
    IF p # <<>> /\ starts_with(s, p) THEN trim_start_matches(Drop(s, Len(p)), p)
    ELSE s

\* Index of the first occurrence of pat in s at or after position i, 0 if none
RECURSIVE Find(_, _, _)
Find(s, pat, i) ==
    IF i + Len(pat) - 1 > Len(s) THEN 0
    ELSE IF SubSeq(s, i, i + Len(pat) - 1) = pat THEN i
    ELSE Find(s, pat, i + 1)

\* str::splitn(n, pat): at most n parts, the last one holding the remainder
RECURSIVE splitn(_, _, _)
splitn(s, n, pat) ==
    LET i == Find(s, pat, 1) IN
    IF n <= 1 \/ i = 0 THEN <<s>>
    ELSE <<SubSeq(s, 1, i - 1)>> \o splitn(Drop(s, i + Len(pat) - 1), n - 1, pat)

\* str::split(pat), every part
RECURSIVE split(_, _)
split(s, pat) ==
    LET i == Find(s, pat, 1) IN
    IF i = 0 THEN <<s>>
    ELSE <<SubSeq(s, 1, i - 1)>> \o split(Drop(s, i + Len(pat) - 1), pat)

RECURSIVE Concat(_)
Concat(ss) == IF ss = <<>> THEN <<>> ELSE Head(ss) \o Concat(Tail(ss))

-----------------------------------------------------------------------------
(* Bytes and strings *)

\* String::from_utf8_lossy: every invalid byte becomes U+FFFD
from_utf8_lossy(bytes) ==
    [i \in 1..Len(bytes) |-> IF bytes[i] = "xFF" THEN "uFFFD" ELSE bytes[i]]

\* The UTF-8 bytes write! puts out for a string: U+FFFD is EF BF BD
RECURSIVE Utf8(_)
Utf8(s) ==
    IF s = <<>> THEN <<>>
    ELSE (IF Head(s) = "uFFFD" THEN <<"xEF", "xBF", "xBD">> ELSE <<Head(s)>>)
         \o Utf8(Tail(s))

\* extract_path: drop the prefix, trim, keep what precedes the first tab
extract_path(line, prefix) ==
    split(trim(trim_start_matches(line, prefix)), <<"\t">>)[1]

-----------------------------------------------------------------------------
(* std::path on Unix: Path::components, Path::file_name, PathBuf::push *)

RootDir == [kind |-> "RootDir", name |-> <<"/">>]
CurDir == [kind |-> "CurDir", name |-> <<".">>]
ParentDir == [kind |-> "ParentDir", name |-> <<".", ".">>]
Normal(n) == [kind |-> "Normal", name |-> n]

\* One piece between separators, as a component: empty pieces and "." vanish,
\* except a "." that opens a path without root
PieceComponents(piece, first, has_root) ==
    IF piece = <<>> THEN <<>>
    ELSE IF piece = <<".">> THEN (IF first /\ ~has_root THEN <<CurDir>> ELSE <<>>)
    ELSE IF piece = <<".", ".">> THEN <<ParentDir>>
    ELSE <<Normal(piece)>>

RECURSIVE PiecesComponents(_, _, _)
PiecesComponents(pieces, first, has_root) ==
    IF pieces = <<>> THEN <<>>
    ELSE PieceComponents(Head(pieces), first, has_root)
         \o PiecesComponents(Tail(pieces), FALSE, has_root)

\* Path::components().collect()
components(path) ==
    LET has_root == starts_with(path, <<"/">>) IN
    IF path = <<>> THEN <<>>
    ELSE (IF has_root THEN <<RootDir>> ELSE <<>>)
         \o PiecesComponents(split(path, <<"/">>), TRUE, has_root)

\* PathBuf::push of one component after another (iter().collect::<PathBuf>())
RECURSIVE collect_path(_)
collect_path(comps) ==
    IF comps = <<>> THEN <<>>
    ELSE LET init == collect_path(SubSeq(comps, 1, Len(comps) - 1))
             c == comps[Len(comps)]
         IN  IF c.kind = "RootDir" THEN c.name
             ELSE IF init = <<>> \/ init[Len(init)] = "/" THEN init \o c.name
             ELSE init \o <<"/">> \o c.name

\* Path::file_name: the last component if it is a normal one; <<>> is None
file_name(path) ==
    LET cs == components(path) IN
    IF cs # <<>> /\ cs[Len(cs)].kind = "Normal" THEN <<cs[Len(cs)].name>> ELSE <<>>

\* iter().rev().zip(..rev()).take_while(|(a, b)| a == b).count()
RECURSIVE common_suffix_len(_, _)
common_suffix_len(a, b) ==
    IF a # <<>> /\ b # <<>> /\ a[Len(a)] = b[Len(b)]
    THEN 1 + common_suffix_len(SubSeq(a, 1, Len(a) - 1), SubSeq(b, 1, Len(b) - 1))
    ELSE 0

\* Mutant of calculate_strip_value: the components of to_path are counted
calculate_strip_value_of_to(from, to) ==
    LET from_components == components(from)
        to_components == components(to)
    IN  Len(to_components) - common_suffix_len(from_components, to_components)

\* Mutant of calculate_strip_value: the common components are counted from the
\* front of the paths
calculate_strip_value_prefix(from, to) ==
    LET from_components == components(from)
        to_components == components(to)
        n == IF Len(from_components) < Len(to_components)
             THEN Len(from_components) ELSE Len(to_components)
        common == {k \in 0..n : \A i \in 1..k : from_components[i] = to_components[i]}
    IN  Len(from_components) - CHOOSE k \in common : \A j \in common : j <= k

\* Mutant of calculate_strip_value: paths that share no trailing component
\* resolve to 0
calculate_strip_value_none_shared(from, to) ==
    LET from_components == components(from)
        to_components == components(to)
        common == common_suffix_len(from_components, to_components)
    IN  IF common = 0 THEN 0 ELSE Len(from_components) - common

calculate_strip_value(from, to) ==
    LET from_components == components(from)
        to_components == components(to)
    IN  Len(from_components) - common_suffix_len(from_components, to_components)

\* args.strip as usize: a negative i32 wraps to the top of the range (2^64 - n;
\* the model keeps it at the top of TLC's 32-bit integers)
as_usize(n) == IF n >= 0 THEN n ELSE 2147483647 + n + 1

\* let strip_value = ... (the strip level used for a record)
resolve_strip(strip, from, to) ==
    IF strip = -1 THEN calculate_strip_value(from, to) ELSE as_usize(strip)

\* Mutant of strip_path: one component too many is dropped
strip_path_off_by_one(full_path_buf, s) ==
    IF s > 0 THEN
        LET comps == components(full_path_buf) IN
        IF Len(comps) > s + 1 THEN collect_path(Drop(comps, s + 1))
        ELSE LET f == file_name(full_path_buf) IN
             IF f = <<>> THEN <<>> ELSE f[1]
    ELSE full_path_buf

\* let stripped_path = ... (the path stripper)
strip_path(full_path_buf, s) ==
    IF s > 0 THEN
        LET comps == components(full_path_buf) IN
        IF Len(comps) > s THEN collect_path(Drop(comps, s))
        ELSE LET f == file_name(full_path_buf) IN
             IF f = <<>> THEN <<>> ELSE f[1]
    ELSE full_path_buf

-----------------------------------------------------------------------------
(* The hunk header regexes and the line writer of process_file_diff *)

\* Position after the longest run of digits that starts at i
RECURSIVE DigitsEnd(_, _)
DigitsEnd(s, i) ==
    IF i <= Len(s) /\ IsDigit(s[i]) THEN DigitsEnd(s, i + 1) ELSE i

\* lit[0-9]+ at position i: the position after it, 0 if it does not match
Field(s, i, lit) ==
    LET j == i + Len(lit) IN
    IF i # 0 /\ j - 1 <= Len(s) /\ SubSeq(s, i, j - 1) = lit /\ DigitsEnd(s, j) > j
    THEN DigitsEnd(s, j) ELSE 0

\* (,[0-9]+)? at position i: the position after it (i itself if it is absent)
OptCount(s, i) ==
    IF i = 0 THEN 0
    ELSE IF Field(s, i, <<",">>) # 0 THEN Field(s, i, <<",">>) ELSE i

\* lit at position i: the position after it, 0 if it does not match
Lit(s, i, lit) ==
    IF i # 0 /\ i + Len(lit) - 1 <= Len(s) /\ SubSeq(s, i, i + Len(lit) - 1) = lit
    THEN i + Len(lit) ELSE 0

NoMatch == [end |-> 0, groups |-> <<>>]

\* The bounds of a match to its captured groups
Groups(s, bs) == [k \in 1..(Len(bs) - 1) |-> SubSeq(s, bs[k], bs[k + 1] - 1)]

\* re: (@@ -[0-9]+)(,[0-9]+)?( \+[0-9]+)(,[0-9]+)?( @@) matched at position i
re_match_at(s, i) ==
    LET e1 == Field(s, i, <<"@", "@", " ", "-">>)
        e2 == OptCount(s, e1)
        e3 == Field(s, e2, <<" ", "+">>)
        e4 == OptCount(s, e3)
        e5 == Lit(s, e4, <<" ", "@", "@">>)
    IN  IF e5 = 0 THEN NoMatch
        ELSE [end |-> e5, groups |-> Groups(s, <<i, e1, e2, e3, e4, e5>>)]

\* re_combine: (@@@ -[0-9]+)(,[0-9]+)?( \-[0-9]+)(,[0-9]+)?( \+[0-9]+)(,[0-9]+)?( @@@)
re_combine_match_at(s, i) ==
    LET e1 == Field(s, i, <<"@", "@", "@", " ", "-">>)
        e2 == OptCount(s, e1)
        e3 == Field(s, e2, <<" ", "-">>)
        e4 == OptCount(s, e3)
        e5 == Field(s, e4, <<" ", "+">>)
        e6 == OptCount(s, e5)
        e7 == Lit(s, e6, <<" ", "@", "@", "@">>)
    IN  IF e7 = 0 THEN NoMatch
        ELSE [end |-> e7, groups |-> Groups(s, <<i, e1, e2, e3, e4, e5, e6, e7>>)]

\* Mutant of mask_digits: only the first digit is replaced (replace for
\* replace_all)
mask_first_digit(g) ==
    [i \in 1..Len(g) |->
        IF IsDigit(g[i]) /\ \A j \in 1..(i - 1) : ~IsDigit(g[j]) THEN "X" ELSE g[i]]

\* re_digit.replace_all(g, "X")
mask_digits(g) == [i \in 1..Len(g) |-> IF IsDigit(g[i]) THEN "X" ELSE g[i]]

\* The closure given to re.replace_all
replacement(g, line_remain) ==
    mask_digits(g[1]) \o g[2] \o mask_digits(g[3]) \o g[4] \o g[5]
    \o line_remain \o <<"\n">>

\* The closure given to re_combine.replace_all
replacement_combine(g, line_remain) ==
    mask_digits(g[1]) \o g[2] \o mask_digits(g[3]) \o g[4] \o mask_digits(g[5])
    \o g[6] \o g[7] \o line_remain \o <<"\n">>

\* Regex::replace_all: every non-overlapping match, leftmost first, is replaced
RECURSIVE replace_all(_, _, _, _)
replace_all(combine, s, i, line_remain) ==
    IF i > Len(s) THEN <<>>
    ELSE LET m == IF combine THEN re_combine_match_at(s, i) ELSE re_match_at(s, i) IN
         IF m.end = 0 THEN <<s[i]>> \o replace_all(combine, s, i + 1, line_remain)
         ELSE (IF combine THEN replacement_combine(m.groups, line_remain)
               ELSE replacement(m.groups, line_remain))
              \o replace_all(combine, s, m.end, line_remain)

\* The "@@ " and "@@@ " branches: split at the first two delimiters, mask
mask_header(trimmed_line, combine) ==
    LET delim == IF combine THEN <<"@", "@", "@">> ELSE <<"@", "@">>
        parts == splitn(trimmed_line, 3, delim)
        line_to_process == IF Len(parts) > 2 THEN delim \o parts[2] \o delim
                           ELSE trimmed_line
        line_remain == IF Len(parts) > 2 THEN parts[3] ELSE <<>>
    IN  replace_all(combine, line_to_process, 1, line_remain)

\* Mutant of write_line: the trimmed line is written where the line is meant
write_line_trimmed(line, mask_linenum) ==
    LET trimmed_line == trim_end(line) IN
    IF mask_linenum THEN
        IF starts_with(trimmed_line, <<"@", "@", " ">>)
        THEN mask_header(trimmed_line, FALSE)
        ELSE IF starts_with(trimmed_line, <<"@", "@", "@", " ">>)
        THEN mask_header(trimmed_line, TRUE)
        ELSE trimmed_line
    ELSE trimmed_line

\* What one iteration of the writing loop writes for a line that is not skipped
write_line(line, mask_linenum) ==
    LET trimmed_line == trim_end(line) IN
    IF mask_linenum THEN
        IF starts_with(trimmed_line, <<"@", "@", " ">>)
        THEN mask_header(trimmed_line, FALSE)
        ELSE IF starts_with(trimmed_line, <<"@", "@", "@", " ">>)
        THEN mask_header(trimmed_line, TRUE)
        ELSE line
    ELSE line

-----------------------------------------------------------------------------
(* process_file_diff *)

DIFF == <<"d", "i", "f", "f", " ", "-", "-">>
INDEX == <<"i", "n", "d", "e", "x", " ">>
FROM == <<"-", "-", "-", " ">>
TO == <<"+", "+", "+", " ">>
BINARY == <<"B", "i", "n", "a", "r", "y", " ", "f", "i", "l", "e", "s", " ">>

\* Mutant of find_path: the last line with the prefix is taken (rfind for find)
RECURSIVE find_path_last(_, _)
find_path_last(lines, prefix) ==
    IF lines = <<>> THEN <<>>
    ELSE IF starts_with(lines[Len(lines)], prefix)
    THEN extract_path(lines[Len(lines)], prefix)
    ELSE find_path_last(SubSeq(lines, 1, Len(lines) - 1), prefix)

\* lines.iter().find(|line| line.starts_with(prefix)).map(extract_path).unwrap_or("")
RECURSIVE find_path(_, _)
find_path(lines, prefix) ==
    IF lines = <<>> THEN <<>>
    ELSE IF starts_with(Head(lines), prefix) THEN extract_path(Head(lines), prefix)
    ELSE find_path(Tail(lines), prefix)

\* The test that lets skip_header pass over a line
is_header_line(trimmed_line) ==
    \/ starts_with(trimmed_line, DIFF)
    \/ starts_with(trimmed_line, INDEX)
    \/ starts_with(trimmed_line, FROM)
    \/ starts_with(trimmed_line, TO)

\* Mutant of write_lines: header_processed is never set
RECURSIVE write_lines_never_processed(_, _, _)
write_lines_never_processed(lines, header_processed, a) ==
    IF lines = <<>> THEN <<>>
    ELSE IF a.skip_header /\ is_header_line(trim_end(Head(lines)))
    THEN write_lines_never_processed(Tail(lines), FALSE, a)
    ELSE <<write_line(Head(lines), a.mask_linenum)>>
         \o write_lines_never_processed(Tail(lines), FALSE, a)

\* for line in lines { ... }: the chunks written, one per write!
RECURSIVE write_lines(_, _, _)
write_lines(lines, header_processed, a) ==
    IF lines = <<>> THEN <<>>
    ELSE IF ~header_processed /\ a.skip_header /\ is_header_line(trim_end(Head(lines)))
    THEN write_lines(Tail(lines), FALSE, a)
    ELSE <<write_line(Head(lines), a.mask_linenum)>>
         \o write_lines(Tail(lines), TRUE, a)

\* args.target_path.join(&stripped_path): an absolute path replaces the target
output_file(path) ==
    [under_target |-> ~starts_with(path, <<"/">>), path |-> path]

\* File::create fails on a path that names a directory: one that ends in a
\* separator, in "." or in ".."
create_fails(path) ==
    LET pieces == split(path, <<"/">>) IN
    pieces[Len(pieces)] \in {<<>>, <<".">>, <<".", ".">>}

\* The file a path names: separators and "." do not tell two paths apart
file_key(path) ==
    collect_path(SelectSeq(components(path), LAMBDA c : c.kind # "CurDir"))

\* Mutant of outcome: the empty path is not skipped, and creating it fails
outcome_no_skip(stripped) ==
    IF create_fails(stripped) THEN "io_error" ELSE "written"

\* How process_file_diff ends: an empty path is skipped, a failed create is
\* returned as an error, else the lines are written
outcome(stripped) ==
    IF stripped = <<>> THEN "skip"
    ELSE IF create_fails(stripped) THEN "io_error"
    ELSE "written"

\* process_file_diff: its result, and what it computed on the way
process_file_diff(lines, full_path_buf, a) ==
    LET from_path_str == find_path(lines, FROM)
        to_path_str == find_path(lines, TO)
        s == resolve_strip(a.strip, from_path_str, to_path_str)
        stripped == strip_path(full_path_buf, s)
    IN  [kind |-> outcome(stripped),
         from_path_str |-> from_path_str,
         to_path_str |-> to_path_str,
         strip_value |-> s,
         path |-> stripped,
         output_file |-> output_file(stripped),
         chunks |-> IF outcome(stripped) # "written" THEN <<>>
                    ELSE [i \in 1..Len(write_lines(lines, FALSE, a)) |->
                             Utf8(write_lines(lines, FALSE, a)[i])]]

\* Mutant of put_file: an existing file is opened for appending
put_file_append(fs, r) ==
    IF r.kind # "written" THEN fs
    ELSE [k \in DOMAIN fs \cup {file_key(r.path)} |->
             IF k # file_key(r.path) THEN fs[k]
             ELSE IF k \in DOMAIN fs THEN fs[k] \o r.chunks
             ELSE r.chunks]

\* File::create truncates: the file holds what this call writes
put_file(fs, r) ==
    IF r.kind # "written" THEN fs
    ELSE [k \in DOMAIN fs \cup {file_key(r.path)} |->
             IF k = file_key(r.path) THEN r.chunks ELSE fs[k]]

-----------------------------------------------------------------------------
(* main: the read loop over standard input *)

\* The input lines a run draws from (raw bytes, as read_until returns them)
InputLines ==
    { DIFF \o <<"g", "i", "t", "\n">>,
      INDEX \o <<"1", "\n">>,
      FROM \o <<"a", "/", "x", "\n">>,
      FROM \o <<"\n">>,
      TO \o <<"b", "/", "x", "\t", "1", "\n">>,
      TO \o <<"\n">>,
      TO \o <<".", ".", "\n">>,
      BINARY \o <<"x", "\r", "\n">>,
      <<"@", "@", " ", "-", "1", " ", "+", "2", " ", "@", "@", "\n">>,
      <<"+", "xFF", "\n">> }

StripArgs == {-1, 0}

ArgsSet ==
    [strip : StripArgs, mask_linenum : BOOLEAN, skip_header : BOOLEAN]

Idle ==
    /\ from_path = <<>> /\ to_path = <<>> /\ strip_arg = 0
    /\ strip_value = <<>> /\ stripped_path = <<>>
    /\ hunk = <<>> /\ hunk_out = <<>>

Init ==
    /\ args \in ArgsSet
    /\ header_state = "Diff"
    /\ current_file_lines = <<>>
    /\ full_path = <<>>
    /\ is_binary = FALSE
    /\ binary_file_lines = <<>>
    /\ files = <<>>
    /\ binary_file = <<>>
    /\ pc = "reading"
    /\ nread = 0
    /\ last_read = <<>>
    /\ block = <<>>
    /\ calls = <<>>
    /\ opened = 0
    /\ bin_owner = <<>>
    /\ Idle

\* read_until(b'\n') returns one more line: the stream has not ended, and only
\* the last line of a stream can lack its newline
CanRead(l) ==
    /\ pc = "reading"
    /\ nread < MaxLines
    /\ IF last_read = <<>> THEN TRUE ELSE last_read[Len(last_read)] = "\n"
    /\ l \in InputLines

Read(l) ==
    /\ nread' = nread + 1
    /\ last_read' = l
    /\ UNCHANGED <<args, binary_file, pathVars, maskVars>>

\* if !current_file_lines.is_empty() && full_path.is_some() && !is_binary
ShouldProcess ==
    current_file_lines # <<>> /\ full_path # <<>> /\ ~is_binary

\* The entry a call of process_file_diff leaves in the history
Call(r, at) ==
    [lines |-> current_file_lines, block |-> block, at |-> at,
     record |-> opened, result |-> r]

\* Mutant of StartRecord: full_path is not reset
StartRecordPathKept(l, line) ==
    LET r == process_file_diff(current_file_lines, full_path[1], args) IN
    IF ShouldProcess /\ r.kind = "io_error"
    THEN /\ pc' = "io_error"
         /\ calls' = Append(calls, Call(r, nread + 1))
         /\ UNCHANGED <<header_state, current_file_lines, full_path, is_binary,
                        binary_file_lines, files, block, opened, bin_owner>>
    ELSE /\ calls' = IF ShouldProcess THEN Append(calls, Call(r, nread + 1))
                     ELSE calls
         /\ files' = IF ShouldProcess THEN put_file(files, r) ELSE files
         /\ current_file_lines' = <<line>>
         /\ full_path' = full_path
         /\ is_binary' = FALSE
         /\ header_state' = "FromOrIndex"
         /\ block' = <<l>>
         /\ opened' = opened + 1
         /\ UNCHANGED <<pc, binary_file_lines, bin_owner>>

\* Mutant of StartRecord: the lines are cleared and the "diff --" line is not
\* pushed
StartRecordLineDropped(l, line) ==
    LET r == process_file_diff(current_file_lines, full_path[1], args) IN
    IF ShouldProcess /\ r.kind = "io_error"
    THEN /\ pc' = "io_error"
         /\ calls' = Append(calls, Call(r, nread + 1))
         /\ UNCHANGED <<header_state, current_file_lines, full_path, is_binary,
                        binary_file_lines, files, block, opened, bin_owner>>
    ELSE /\ calls' = IF ShouldProcess THEN Append(calls, Call(r, nread + 1))
                     ELSE calls
         /\ files' = IF ShouldProcess THEN put_file(files, r) ELSE files
         /\ current_file_lines' = <<>>
         /\ full_path' = <<>>
         /\ is_binary' = FALSE
         /\ header_state' = "FromOrIndex"
         /\ block' = <<l>>
         /\ opened' = opened + 1
         /\ UNCHANGED <<pc, binary_file_lines, bin_owner>>

\* The "diff --" branch of states Diff and Body: the open record is processed,
\* then the new one is opened
StartRecord(l, line) ==
    LET r == process_file_diff(current_file_lines, full_path[1], args) IN
    IF ShouldProcess /\ r.kind = "io_error"
    THEN /\ pc' = "io_error"
         /\ calls' = Append(calls, Call(r, nread + 1))
         /\ UNCHANGED <<header_state, current_file_lines, full_path, is_binary,
                        binary_file_lines, files, block, opened, bin_owner>>
    ELSE /\ calls' = IF ShouldProcess THEN Append(calls, Call(r, nread + 1))
                     ELSE calls
         /\ files' = IF ShouldProcess THEN put_file(files, r) ELSE files
         /\ current_file_lines' = <<line>>
         /\ full_path' = <<>>
         /\ is_binary' = FALSE
         /\ header_state' = "FromOrIndex"
         /\ block' = <<l>>
         /\ opened' = opened + 1
         /\ UNCHANGED <<pc, binary_file_lines, bin_owner>>

\* Mutant of push_binary: the marker is pushed with its line terminator
push_binary_untrimmed(lines, line) == Append(lines, line)

\* binary_file_lines.push(line.trim_end().to_string())
push_binary(lines, line) == Append(lines, trim_end(line))

\* Mutant of PushHeader: the line is pushed and the state is left as it is
PushHeaderNoMove(l, line, next) ==
    /\ current_file_lines' = Append(current_file_lines, line)
    /\ header_state' = header_state
    /\ block' = Append(block, l)
    /\ UNCHANGED <<pc, is_binary, binary_file_lines, files, calls, opened, bin_owner>>

\* A line accepted as a header line
PushHeader(l, line, next) ==
    /\ current_file_lines' = Append(current_file_lines, line)
    /\ header_state' = next
    /\ block' = Append(block, l)
    /\ UNCHANGED <<pc, is_binary, binary_file_lines, files, calls, opened, bin_owner>>

\* Mutant of FormatError: the error is reported and the loop goes on
FormatErrorIgnored ==
    /\ UNCHANGED <<header_state, current_file_lines, full_path, is_binary,
                   binary_file_lines, files, block, calls, opened, bin_owner, pc>>

\* eprintln!("Error: Invalid diff format. ..."); std::process::exit(1)
FormatError ==
    /\ pc' = "format_error"
    /\ UNCHANGED <<header_state, current_file_lines, full_path, is_binary,
                   binary_file_lines, files, block, calls, opened, bin_owner>>

StepDiff ==
    \E l \in InputLines :
        LET line == from_utf8_lossy(l) IN
        /\ CanRead(l)
        /\ header_state = "Diff"
        /\ Read(l)
        /\ IF starts_with(line, DIFF) THEN StartRecord(l, line)
           ELSE UNCHANGED <<header_state, current_file_lines, full_path, is_binary,
                            binary_file_lines, files, pc, block, calls, opened,
                            bin_owner>>

StepFromOrIndex ==
    \E l \in InputLines :
        LET line == from_utf8_lossy(l) IN
        /\ CanRead(l)
        /\ header_state = "FromOrIndex"
        /\ Read(l)
        /\ IF starts_with(line, INDEX)
           THEN PushHeader(l, line, "From") /\ UNCHANGED full_path
           ELSE IF starts_with(line, FROM)
           THEN PushHeader(l, line, "To") /\ UNCHANGED full_path
           ELSE FormatError

StepFrom ==
    \E l \in InputLines :
        LET line == from_utf8_lossy(l) IN
        /\ CanRead(l)
        /\ header_state = "From"
        /\ Read(l)
        /\ IF starts_with(line, FROM)
           THEN PushHeader(l, line, "To") /\ UNCHANGED full_path
           ELSE FormatError

StepTo ==
    \E l \in InputLines :
        LET line == from_utf8_lossy(l)
            path_str == extract_path(line, TO)
        IN  /\ CanRead(l)
            /\ header_state = "To"
            /\ Read(l)
            /\ IF starts_with(line, TO)
               THEN /\ full_path' = IF path_str # <<>> THEN <<path_str>> ELSE full_path
                    /\ PushHeader(l, line, "Body")
               ELSE FormatError

StepBody ==
    \E l \in InputLines :
        LET line == from_utf8_lossy(l) IN
        /\ CanRead(l)
        /\ header_state = "Body"
        /\ starts_with(line, DIFF) \/ Len(current_file_lines) < MaxRecordLines
        /\ Read(l)
        /\ IF starts_with(line, DIFF) THEN StartRecord(l, line)
           ELSE /\ is_binary' = (is_binary \/ starts_with(line, BINARY))
                /\ binary_file_lines' =
                       IF starts_with(line, BINARY)
                       THEN push_binary(binary_file_lines, line)
                       ELSE binary_file_lines
                /\ bin_owner' = IF starts_with(line, BINARY)
                                THEN Append(bin_owner, opened) ELSE bin_owner
                /\ current_file_lines' = Append(current_file_lines, line)
                /\ block' = Append(block, l)
                /\ UNCHANGED <<header_state, full_path, files, pc, calls, opened>>

\* Mutant of EndOfStream: a stream that ends inside a header block is a format
\* error
EndOfStreamStrict ==
    LET r == process_file_diff(current_file_lines, full_path[1], args) IN
    /\ pc = "reading"
    /\ IF header_state \in {"FromOrIndex", "From", "To"}
       THEN /\ pc' = "format_error"
            /\ UNCHANGED <<calls, files, binary_file>>
       ELSE IF ShouldProcess /\ r.kind = "io_error"
       THEN /\ pc' = "io_error"
            /\ calls' = Append(calls, Call(r, nread + 1))
            /\ UNCHANGED <<files, binary_file>>
       ELSE /\ pc' = "done"
            /\ calls' = IF ShouldProcess THEN Append(calls, Call(r, nread + 1))
                        ELSE calls
            /\ files' = IF ShouldProcess THEN put_file(files, r) ELSE files
            /\ binary_file' =
                   IF binary_file_lines # <<>>
                   THEN <<[i \in 1..Len(binary_file_lines) |->
                              Utf8(binary_file_lines[i] \o <<"\n">>)]>>
                   ELSE <<>>
    /\ UNCHANGED <<args, header_state, current_file_lines, full_path, is_binary,
                   binary_file_lines, nread, last_read, block, opened, bin_owner,
                   pathVars, maskVars>>

\* read_until returns 0: the last record is processed, the binary markers are
\* written to __BINARY_FILES__.txt, each followed by a newline
EndOfStream ==
    LET r == process_file_diff(current_file_lines, full_path[1], args) IN
    /\ pc = "reading"
    /\ IF ShouldProcess /\ r.kind = "io_error"
       THEN /\ pc' = "io_error"
            /\ calls' = Append(calls, Call(r, nread + 1))
            /\ UNCHANGED <<files, binary_file>>
       ELSE /\ pc' = "done"
            /\ calls' = IF ShouldProcess THEN Append(calls, Call(r, nread + 1))
                        ELSE calls
            /\ files' = IF ShouldProcess THEN put_file(files, r) ELSE files
            /\ binary_file' =
                   IF binary_file_lines # <<>>
                   THEN <<[i \in 1..Len(binary_file_lines) |->
                              Utf8(binary_file_lines[i] \o <<"\n">>)]>>
                   ELSE <<>>
    /\ UNCHANGED <<args, header_state, current_file_lines, full_path, is_binary,
                   binary_file_lines, nread, last_read, block, opened, bin_owner,
                   pathVars, maskVars>>

Next ==
    \/ StepDiff
    \/ StepFromOrIndex
    \/ StepFrom
    \/ StepTo
    \/ StepBody
    \/ EndOfStream

Spec == Init /\ [][Next]_vars

-----------------------------------------------------------------------------
(* The strip-level resolver and the path stripper on their own: a run draws  *)
(* the two paths of a record and args.strip, then resolves and strips as     *)
(* process_file_diff does.                                                   *)

Names == {<<"a">>, <<"x">>, <<".", ".">>}

\* The relative paths of exactly n pieces
RECURSIVE RelPaths(_)
RelPaths(n) ==
    IF n = 1 THEN Names
    ELSE {p \o <<"/">> \o q : p \in RelPaths(n - 1), q \in Names}

PathStrings ==
    LET rel == UNION {RelPaths(n) : n \in 1..MaxComps} IN
    rel \cup {<<"/">> \o p : p \in rel} \cup {<<"/">>}

PathStripArgs == {-2, -1, 0, 1, 2}

MainIdle ==
    /\ args = [strip |-> -1, mask_linenum |-> FALSE, skip_header |-> FALSE]
    /\ header_state = "Diff"
    /\ current_file_lines = <<>>
    /\ full_path = <<>>
    /\ is_binary = FALSE
    /\ binary_file_lines = <<>>
    /\ files = <<>>
    /\ binary_file = <<>>
    /\ pc = "idle"
    /\ nread = 0
    /\ last_read = <<>>
    /\ block = <<>>
    /\ calls = <<>>
    /\ opened = 0
    /\ bin_owner = <<>>

\* main only calls process_file_diff with a non-empty "+++ " path
InitPath ==
    /\ MainIdle
    /\ from_path \in PathStrings \cup {<<>>}
    /\ to_path \in PathStrings
    /\ strip_arg \in PathStripArgs
    /\ strip_value = <<>>
    /\ stripped_path = <<>>
    /\ hunk = <<>> /\ hunk_out = <<>>

Resolve ==
    /\ pc = "idle"
    /\ to_path # <<>>
    /\ strip_value = <<>>
    /\ strip_value' = <<resolve_strip(strip_arg, from_path, to_path)>>
    /\ UNCHANGED <<mainVars, from_path, to_path, strip_arg, stripped_path, maskVars>>

Strip ==
    /\ strip_value # <<>>
    /\ stripped_path = <<>>
    /\ stripped_path' = <<strip_path(to_path, strip_value[1])>>
    /\ UNCHANGED <<mainVars, from_path, to_path, strip_arg, strip_value, maskVars>>

NextPath == Resolve \/ Strip

SpecPath == InitPath /\ [][NextPath]_vars

-----------------------------------------------------------------------------
(* The line writer on its own: a run draws a line that opens like a hunk     *)
(* header, and writes it as the loop of process_file_diff does.              *)

DigitCycle == <<"1", "0", "7">>

\* A line number of n digits
DigitString(n) == [i \in 1..n |-> DigitCycle[((i - 1) % 3) + 1]]

\* A range is a start and a count: the start may be missing; the count may be
\* absent (<<>>), empty (a comma and no digits) or given
Starts == {DigitString(n) : n \in 1..MaxDigits} \cup {<<>>}
Counts == {<<>>, << <<>> >>, << <<"1", "3">> >>}
Ranges == [start : Starts, count : Counts]

Delim(form) == IF form = "three" THEN <<"@", "@", "@">> ELSE <<"@", "@">>

Tails(form) == {<<>>, <<" ", "f", "1">>, <<" ">> \o Delim(form) \o <<" ", "2", " ">>}
Terms == {<<"\n">>, <<"\r", "\n">>, <<>>}

Hunks ==
    [form : {"two"}, a : Ranges, b : {[start |-> <<>>, count |-> <<>>]}, c : Ranges,
     spaced : BOOLEAN, tail : Tails("two"), term : Terms]
    \cup
    [form : {"three"}, a : Ranges, b : Ranges, c : Ranges,
     spaced : BOOLEAN, tail : Tails("three"), term : Terms]

RangeText(sign, r) ==
    <<" ", sign>> \o r.start
    \o (IF r.count = <<>> THEN <<>> ELSE <<",">> \o r.count[1])

\* The header of a drawn line, up to and including its closing delimiter
HunkHeader(h) ==
    Delim(h.form) \o RangeText("-", h.a)
    \o (IF h.form = "three" THEN RangeText("-", h.b) ELSE <<>>)
    \o RangeText("+", h.c)
    \o (IF h.spaced THEN <<" ">> ELSE <<>>) \o Delim(h.form)

\* The drawn line, as read from the stream
HunkLine(h) == HunkHeader(h) \o h.tail \o h.term

InitMask ==
    /\ MainIdle
    /\ from_path = <<>> /\ to_path = <<>> /\ strip_arg = 0
    /\ strip_value = <<>> /\ stripped_path = <<>>
    /\ hunk \in {<<x>> : x \in Hunks}
    /\ hunk_out = <<>>

\* One iteration of the writing loop, with masking enabled
WriteMasked ==
    /\ pc = "idle"
    /\ hunk # <<>>
    /\ hunk_out = <<>>
    /\ hunk_out' = <<[mask |-> TRUE,
                      chunk |-> Utf8(write_line(from_utf8_lossy(HunkLine(hunk[1])), TRUE))]>>
    /\ UNCHANGED <<mainVars, pathVars, hunk>>

\* One iteration of the writing loop, with masking disabled
WritePlain ==
    /\ pc = "idle"
    /\ hunk # <<>>
    /\ hunk_out = <<>>
    /\ hunk_out' = <<[mask |-> FALSE,
                      chunk |-> Utf8(write_line(from_utf8_lossy(HunkLine(hunk[1])), FALSE))]>>
    /\ UNCHANGED <<mainVars, pathVars, hunk>>

NextMask == WriteMasked \/ WritePlain

SpecMask == InitMask /\ [][NextMask]_vars

-----------------------------------------------------------------------------
(* Claims about the read loop (specification Spec) *)

\* The bytes of a line with every invalid byte replaced by U+FFFD (EF BF BD)
Replaced(l) ==
    Concat([i \in 1..Len(l) |->
               IF l[i] = "xFF" THEN <<"xEF", "xBF", "xBD">> ELSE <<l[i]>>])

ValidUtf8(l) == \A i \in 1..Len(l) : l[i] # "xFF"

\* The calls of process_file_diff that wrote an artifact
Written == {i \in 1..Len(calls) : calls[i].result.kind = "written"}

PlainRun == ~args.mask_linenum /\ ~args.skip_header

\* A block runs from a "diff --" line up to the next one
IsBlock(b) ==
    /\ b # <<>>
    /\ starts_with(b[1], DIFF)
    /\ \A i \in 2..Len(b) : ~starts_with(b[i], DIFF)

\* C1 as stated: with masking and skip-header disabled, the lines written for an
\* emitted record are exactly the input lines of its diff block, unmodified.
C1_RoundTripExact ==
    PlainRun => \A i \in Written : calls[i].result.chunks = calls[i].block

\* C1 as amended: with masking and skip-header disabled, the lines written for
\* an emitted record are the input lines of its diff block (from its "diff --"
\* line up to the next one or the end of the stream), in order, each with every
\* invalid UTF-8 byte replaced by U+FFFD; a line that is valid UTF-8 is written
\* unmodified.
C1_RoundTripLossy ==
    PlainRun =>
        \A i \in Written :
            LET b == calls[i].block
                w == calls[i].result.chunks
            IN  /\ IsBlock(b)
                /\ Len(w) = Len(b)
                /\ \A k \in 1..Len(b) :
                       /\ w[k] = Replaced(b[k])
                       /\ ValidUtf8(b[k]) => w[k] = b[k]

\* C1 witness: a record with a body line holding an invalid byte was written
C1_Witness ==
    /\ PlainRun
    /\ \E i \in Written :
           /\ Len(calls[i].block) >= 4
           /\ \E k \in 1..Len(calls[i].block) : ~ValidUtf8(calls[i].block[k])

\* The lines of a block that begin with "Binary files "
Markers(b) == SelectSeq(b, LAMBDA l : starts_with(l, BINARY))

\* The markers the open record has put into the aggregate
OwnMarkers ==
    SelectSeq([j \in 1..Len(bin_owner) |-> [owner |-> bin_owner[j],
                                             line |-> binary_file_lines[j]]],
              LAMBDA m : m.owner = opened)

\* A line without its trailing whitespace, as text
Trimmed(l) == trim_end(from_utf8_lossy(l))

\* What the claim says of the aggregate and of the artifacts, but for the number
\* of lines a record contributes: a binary record is never handed to
\* process_file_diff, the markers are in stream order, and the aggregate file
\* written at the end of the run holds them, one per line
BinaryDiversion ==
    /\ Len(bin_owner) = Len(binary_file_lines)
    /\ \A i \in 1..Len(calls) : Markers(calls[i].block) = <<>>
    /\ \A j \in 1..Len(bin_owner) :
           /\ bin_owner[j] \in 1..opened
           /\ j > 1 => bin_owner[j - 1] <= bin_owner[j]
    /\ pc = "done" =>
           binary_file = IF binary_file_lines = <<>> THEN <<>>
                         ELSE <<[j \in 1..Len(binary_file_lines) |->
                                    Utf8(binary_file_lines[j]) \o <<"\n">>]>>

\* C2 as stated: a record whose body has a line beginning with "Binary files "
\* produces no artifact and contributes exactly one line to the aggregate, in
\* stream order; a record without such a line contributes nothing.
C2_OneLinePerRecord ==
    /\ BinaryDiversion
    /\ Len(OwnMarkers) = IF Markers(block) = <<>> THEN 0 ELSE 1

\* C2 as amended: a record whose body has lines beginning with "Binary files "
\* produces no artifact and contributes one line to the aggregate for each such
\* line (the line without its trailing whitespace), in stream order; a record
\* without such a line contributes nothing.
C2_OneLinePerMarker ==
    /\ BinaryDiversion
    /\ Len(OwnMarkers) = Len(Markers(block))
    /\ \A j \in 1..Len(OwnMarkers) : OwnMarkers[j].line = Trimmed(Markers(block)[j])

\* C2 witness: a run ended after a record with two markers and wrote the aggregate
C2_Witness ==
    /\ pc = "done"
    /\ Len(Markers(block)) = 2
    /\ binary_file # <<>>
    /\ calls = <<>>

\* C3 as stated, for the lines of a stream that has opened a record: whenever a
\* line beginning with "--- " is immediately followed by a line beginning with
\* "diff --", the run aborts with a format error at that line.
C3_AnyFromThenDiff ==
    [][(nread' = nread + 1 /\ opened >= 1 /\ starts_with(last_read, FROM)
        /\ starts_with(last_read', DIFF))
       => pc' = "format_error"]_vars

\* C3 as amended: when a "--- " line read as a header line (in state
\* FromOrIndex or From, so that a "+++ " line is expected) is immediately
\* followed by a line beginning with "diff --", the run aborts with a format
\* error at that line, and no record is emitted at it or after it.
C3_HeaderFromThenDiff ==
    [][/\ (nread' = nread + 1 /\ header_state = "To" /\ starts_with(last_read', DIFF))
          => (pc' = "format_error" /\ starts_with(last_read, FROM)
              /\ calls' = calls /\ files' = files)
       /\ pc = "format_error"
          => (pc' = pc /\ calls' = calls /\ files' = files
              /\ binary_file' = binary_file)]_vars

\* C3 witness: the run was aborted at a "diff --" line read in state To
C3_Witness ==
    /\ pc = "format_error"
    /\ header_state = "To"
    /\ starts_with(last_read, DIFF)

\* The header of a record: its "diff --" line, an "index " line if the second
\* line is one, its "--- " line and its "+++ " line
HeaderLen(lines) == IF starts_with(lines[2], INDEX) THEN 4 ELSE 3

BodyOf(lines) == Drop(lines, HeaderLen(lines))

\* A line that, without its trailing whitespace, begins like a header line
LooksLikeHeader(l) ==
    \E p \in {DIFF, INDEX, FROM, TO} : starts_with(trim_end(l), p)

\* The lines from the first one that does not look like a header line
RECURSIVE DropLeadingHeaders(_)
DropLeadingHeaders(lines) ==
    IF lines # <<>> /\ LooksLikeHeader(Head(lines))
    THEN DropLeadingHeaders(Tail(lines)) ELSE lines

\* The chunks the line writer makes of lines, as bytes
AsWritten(lines) ==
    [k \in 1..Len(lines) |-> Utf8(write_line(lines[k], args.mask_linenum))]

C10_EmptyPathSkip ==
    [][/\ (header_state = "Body" /\ full_path = <<>> /\ nread' = nread + 1
           /\ starts_with(last_read', DIFF))
          => (/\ calls' = calls /\ files' = files /\ pc' = "reading"
              /\ header_state' = "FromOrIndex" /\ opened' = opened + 1)
       /\ (header_state = "Body" /\ full_path = <<>> /\ pc = "reading"
           /\ pc' # "reading")
          => (calls' = calls /\ files' = files /\ pc' = "done")
       /\ (Len(calls') = Len(calls) + 1 /\ calls'[Len(calls')].result.path = <<>>)
          => (/\ calls'[Len(calls')].result.kind = "skip"
              /\ files' = files
              /\ pc' \in {"reading", "done"}
              /\ pc' = "reading"
                 => (header_state' = "FromOrIndex" /\ opened' = opened + 1))]_vars

\* C10 witness: a record was skipped for its empty stripped path, and the record
\* after it was written
C10_Witness ==
    /\ pc = "done"
    /\ \E i \in 1..Len(calls) : \E j \in Written :
           /\ i < j
           /\ calls[i].result.kind = "skip"
           /\ calls[i].result.path = <<>>

\* The state a line that is no format error leads to, by the transition table
TableNext(state, line) ==
    IF state = "Diff" THEN (IF starts_with(line, DIFF) THEN "FromOrIndex" ELSE "Diff")
    ELSE IF state = "FromOrIndex"
    THEN (IF starts_with(line, INDEX) THEN "From" ELSE "To")
    ELSE IF state = "From" THEN "To"
    ELSE IF state = "To" THEN "Body"
    ELSE (IF starts_with(line, DIFF) THEN "FromOrIndex" ELSE "Body")

\* The lines the transition table calls a fatal format error
Unexpected(state, line) ==
    \/ state = "FromOrIndex" /\ ~starts_with(line, INDEX) /\ ~starts_with(line, FROM)
    \/ state = "From" /\ ~starts_with(line, FROM)
    \/ state = "To" /\ ~starts_with(line, TO)

\* C13: a consumed line ends the run with a format error iff it is consumed in
\* state FromOrIndex and begins with neither "index " nor "--- ", or in state
\* From and does not begin with "--- ", or in state To and does not begin with
\* "+++ "; in states Diff and Body no line is a format error; every line after
\* which the run goes on moves the classifier to the next state of the
\* transition table, and a format error leaves the classifier where it was.
C13_FormatErrorsExactly ==
    [][nread' = nread + 1 =>
          LET line == from_utf8_lossy(last_read') IN
          /\ pc' = "format_error" <=> Unexpected(header_state, line)
          /\ header_state \in {"Diff", "Body"} => pc' # "format_error"
          /\ pc' = "reading" => header_state' = TableNext(header_state, line)
          /\ pc' = "format_error"
             => (header_state' = header_state
                 /\ current_file_lines' = current_file_lines)]_vars

\* C13 witness: after a first record was read through its body and emitted, the
\* run was aborted at a line read in state From
C13_Witness ==
    /\ pc = "format_error"
    /\ header_state = "From"
    /\ opened = 2
    /\ Len(calls) = 1

\* The lines of a record are a "diff --" line, at most one "index " line, a
\* "--- " line and a "+++ " line, then body lines (none of them a "diff --" line)
WellShaped(lines) ==
    /\ Len(lines) >= 3
    /\ starts_with(lines[1], DIFF)
    /\ Len(lines) >= HeaderLen(lines)
    /\ starts_with(lines[HeaderLen(lines) - 1], FROM)
    /\ starts_with(lines[HeaderLen(lines)], TO)
    /\ \A k \in 1..Len(BodyOf(lines)) : ~starts_with(BodyOf(lines)[k], DIFF)

\* C14: every record handed to process_file_diff has a non-empty to_path and no
\* line beginning with "Binary files "; its lines are a "diff --" line, at most
\* one "index " line, a "--- " line and a "+++ " line, followed by its body
\* lines; the from_path and to_path that process_file_diff reads from the lines
\* are those of the header's "--- " and "+++ " lines, and the to_path is the one
\* the read loop kept in full_path.
C14_EmittedRecordShape ==
    \A i \in 1..Len(calls) :
        LET lines == calls[i].lines
            r == calls[i].result
        IN  /\ WellShaped(lines)
            /\ lines = [k \in 1..Len(calls[i].block) |->
                            from_utf8_lossy(calls[i].block[k])]
            /\ Markers(lines) = <<>>
            /\ r.to_path_str # <<>>
            /\ r.to_path_str = extract_path(lines[HeaderLen(lines)], TO)
            /\ r.from_path_str = extract_path(lines[HeaderLen(lines) - 1], FROM)
            /\ (r.strip_value = 0 /\ r.kind # "skip") => r.path = r.to_path_str

\* C14 witness: a record was handed to process_file_diff whose body has a line
\* beginning with "+++ " that names another path than its header does
C14_Witness ==
    \E i \in 1..Len(calls) :
        \E k \in 1..Len(BodyOf(calls[i].lines)) :
            LET l == BodyOf(calls[i].lines)[k] IN
            /\ starts_with(l, TO)
            /\ extract_path(l, TO) \notin {<<>>, calls[i].result.to_path_str}

\* The open record: there is none before the first "diff --" line and exactly
\* one from then on, which begins with its "diff --" line and holds every line
\* read since
OneOpenRecord ==
    /\ header_state = "Diff" <=> opened = 0
    /\ opened = 0 => current_file_lines = <<>>
    /\ opened >= 1
       => /\ IsBlock(block)
          /\ current_file_lines = [k \in 1..Len(block) |-> from_utf8_lossy(block[k])]

\* C15: lines are ignored only in state Diff, which the classifier is in only
\* before the first "diff --" line and never returns to; from then on exactly
\* one record is open, and every line consumed after which the run goes on is
\* appended to exactly one record: a "diff --" line opens the next record as its
\* first line, any other line becomes the last line of the open record.
C15_OneOpenRecord ==
    /\ []OneOpenRecord
    /\ [][/\ header_state # "Diff" => header_state' # "Diff"
          /\ (nread' = nread + 1 /\ pc' = "reading") =>
                 LET line == from_utf8_lossy(last_read') IN
                 IF header_state = "Diff" /\ ~starts_with(line, DIFF)
                 THEN current_file_lines' = <<>> /\ opened' = 0
                 ELSE IF starts_with(line, DIFF)
                 THEN current_file_lines' = <<line>> /\ opened' = opened + 1
                 ELSE /\ current_file_lines' = Append(current_file_lines, line)
                      /\ opened' = opened
          /\ nread' = nread => current_file_lines' = current_file_lines]_vars

\* C15 witness: a line was ignored before the first "diff --" line, and the
\* record that line opened has taken its header and a body line
C15_Witness ==
    /\ opened = 1
    /\ nread > Len(block)
    /\ header_state = "Body"
    /\ Len(current_file_lines) > HeaderLen(current_file_lines)

\* The records emitted so far: each one once, in the order they were opened, and
\* the open record only once the run has come to its end
EmittedInOrder ==
    \A i \in 1..Len(calls) :
        /\ calls[i].record \in 1..opened
        /\ i > 1 => (calls[i - 1].record < calls[i].record
                     /\ calls[i - 1].at < calls[i].at)
        /\ calls[i].record = opened => pc \in {"done", "io_error"}

\* C17: each opened record is handed to process_file_diff at most once, and only
\* when the next "diff --" line is consumed in state Body or at end-of-stream;
\* the records are emitted in the order their "diff --" lines appear; the record
\* is emitted whole, with every line read since its "diff --" line, and no line
\* is appended to it afterwards.
C17_EmissionOrder ==
    /\ []EmittedInOrder
    /\ [][calls' # calls =>
             /\ calls' = Append(calls, calls'[Len(calls')])
             /\ header_state = "Body"
             /\ pc = "reading"
             /\ calls'[Len(calls')].record = opened
             /\ calls'[Len(calls')].lines = current_file_lines
             /\ calls'[Len(calls')].at = nread + 1
             /\ \/ /\ nread' = nread + 1
                   /\ starts_with(last_read', DIFF)
                   /\ \/ pc' = "reading" /\ opened' = opened + 1
                            /\ current_file_lines' = <<from_utf8_lossy(last_read')>>
                      \/ pc' = "io_error" /\ opened' = opened
                            /\ current_file_lines' = current_file_lines
                \/ /\ nread' = nread
                   /\ pc' \in {"done", "io_error"}
                   /\ current_file_lines' = current_file_lines]_vars

\* C17 witness: two records were emitted, the first when the "diff --" line of
\* the second was consumed, the second at end-of-stream
C17_Witness ==
    /\ pc = "done"
    /\ Len(calls) = 2
    /\ calls[1].record = 1 /\ calls[1].at <= nread
    /\ calls[2].record = 2 /\ calls[2].at = nread + 1

\* The calls that wrote the file a key names
WrittenTo(k) == {i \in Written : file_key(calls[i].result.path) = k}

\* C18: when several emitted records resolve to the same output path, the file
\* at that path holds only what the last of them in stream order wrote; the
\* lines of the earlier ones are neither kept nor appended to.
C18_LastRecordWins ==
    /\ \A i \in Written : file_key(calls[i].result.path) \in DOMAIN files
    /\ \A k \in DOMAIN files :
           /\ WrittenTo(k) # {}
           /\ LET last == CHOOSE i \in WrittenTo(k) : \A j \in WrittenTo(k) : j <= i
              IN  files[k] = calls[last].result.chunks

\* C18 witness: a run ended after two records with different lines were written
\* to the same output path
C18_Witness ==
    /\ pc = "done"
    /\ \E i, j \in Written :
           /\ i < j
           /\ file_key(calls[i].result.path) = file_key(calls[j].result.path)
           /\ calls[i].result.chunks # calls[j].result.chunks
           /\ calls[i].result.chunks # <<>>

\* The stream has ended inside the header block of the open record
TruncatedHeader == header_state \in {"FromOrIndex", "From", "To"}

\* C19: when the stream ends in state FromOrIndex, From or To, the run completes
\* normally, without a format error; the truncated record is not emitted; the
\* records emitted before it and their files stay as they are; and the binary
\* aggregate is written iff a marker was observed, with every marker in it.
C19_TruncatedHeaderAtEnd ==
    /\ [](TruncatedHeader => (full_path = <<>> /\ ~is_binary
                               /\ \A i \in 1..Len(calls) : calls[i].record < opened))
    /\ [][(TruncatedHeader /\ pc = "reading" /\ nread' = nread /\ pc' # "reading")
          => /\ pc' = "done"
             /\ calls' = calls
             /\ files' = files
             /\ binary_file' # <<>> <=> binary_file_lines # <<>>
             /\ binary_file_lines # <<>>
                => binary_file'[1] = [j \in 1..Len(binary_file_lines) |->
                                         Utf8(binary_file_lines[j]) \o <<"\n">>]]_vars

\* C19 witness: the stream ended after the "--- " line of a second record, the
\* first record having been written
C19_Witness ==
    /\ pc = "done"
    /\ header_state = "To"
    /\ opened = 2
    /\ Len(calls) = 1
    /\ calls[1].result.kind = "written"
    /\ files # <<>>

-----------------------------------------------------------------------------
(* Claims about the resolver and the stripper (specification SpecPath) *)

FromComps == components(from_path)
ToComps == components(to_path)

\* The number of trailing components two component sequences have in common
SharedTrailing(a, b) ==
    LET n == IF Len(a) < Len(b) THEN Len(a) ELSE Len(b)
        same == {k \in 0..n :
                    \A i \in 1..k : a[Len(a) + 1 - i] = b[Len(b) + 1 - i]}
    IN  CHOOSE k \in same : (k + 1) \notin same

AutoResolved == strip_arg = -1 /\ strip_value # <<>>

\* C6 as stated: with auto-detect, the strip level is the number of components
\* of to_path minus the number of trailing components the paths share, for
\* every pair of paths.
C6_CountsToPath ==
    AutoResolved => strip_value[1] = Len(ToComps) - SharedTrailing(FromComps, ToComps)

\* C6 as amended: with auto-detect, the strip level is the number of components
\* of from_path minus the number of trailing components the paths share, for
\* every pair of paths (the two agree when the paths have the same number of
\* components); an explicit strip count is used as given.
C6_CountsFromPath ==
    /\ AutoResolved
       => strip_value[1] = Len(FromComps) - SharedTrailing(FromComps, ToComps)
    /\ (strip_value # <<>> /\ strip_arg >= 0) => strip_value[1] = strip_arg

\* C6 witness: a strip level was auto-detected for paths of different lengths
\* that share a trailing component
C6_Witness ==
    /\ AutoResolved
    /\ Len(FromComps) < Len(ToComps)
    /\ SharedTrailing(FromComps, ToComps) = 1

ExDirFrom == <<"a", "/", "d", "i", "r", "/", "x", ".", "t", "x", "t">>
ExDirTo == <<"b", "/", "d", "i", "r", "/", "x", ".", "t", "x", "t">>
ExOldName == <<"a", "/", "o", "l", "d", "/", "n", "a", "m", "e", ".", "t", "x", "t">>
ExNewName == <<"b", "/", "n", "e", "w", "/", "n", "a", "m", "e", ".", "t", "x", "t">>

\* C7: when from_path and to_path have the same number n of components and
\* share exactly k trailing components, the auto-detected strip level is n - k;
\* a/dir/x.txt against b/dir/x.txt gives 1 and the output path dir/x.txt, the
\* rename a/old/name.txt to b/new/name.txt gives 2 and the output path name.txt.
C7_EqualCounts ==
    /\ (AutoResolved /\ Len(FromComps) = Len(ToComps))
       => strip_value[1] = Len(ToComps) - SharedTrailing(FromComps, ToComps)
    /\ resolve_strip(-1, ExDirFrom, ExDirTo) = 1
    /\ strip_path(ExDirTo, resolve_strip(-1, ExDirFrom, ExDirTo))
           = <<"d", "i", "r", "/", "x", ".", "t", "x", "t">>
    /\ resolve_strip(-1, ExOldName, ExNewName) = 2
    /\ strip_path(ExNewName, resolve_strip(-1, ExOldName, ExNewName))
           = <<"n", "a", "m", "e", ".", "t", "x", "t">>

\* C7 witness: a strip level was auto-detected for two paths of two components
\* that share their last one
C7_Witness ==
    /\ AutoResolved
    /\ Len(FromComps) = 2 /\ Len(ToComps) = 2
    /\ from_path # to_path
    /\ SharedTrailing(FromComps, ToComps) = 1

Stripped == strip_value # <<>> /\ stripped_path # <<>>

\* The two cases of the stripper on which C8 and the code agree: no stripping,
\* and dropping the first s components
StripCommon ==
    LET s == strip_value[1] IN
    /\ s = 0 => stripped_path[1] = to_path
    /\ (s > 0 /\ Len(ToComps) > s)
       => components(stripped_path[1]) = SubSeq(ToComps, s + 1, Len(ToComps))

\* C8 as stated: the output path is the to_path when s = 0, the to_path without
\* its first s components when it has more than s, and only its final component
\* when s > 0 and it has s or fewer.
C8_FinalComponent ==
    Stripped =>
        /\ StripCommon
        /\ (strip_value[1] > 0 /\ Len(ToComps) <= strip_value[1])
           => components(stripped_path[1]) = <<ToComps[Len(ToComps)]>>

\* C8 as amended: the output path is the to_path when s = 0, the to_path without
\* its first s components when it has more than s, and, when s > 0 and it has s
\* or fewer, only its final component if that is a normal name, and the empty
\* path (the record is skipped) if the to_path ends in "..", or is "/" or ".".
C8_FileNameOrEmpty ==
    Stripped =>
        /\ StripCommon
        /\ (strip_value[1] > 0 /\ Len(ToComps) <= strip_value[1])
           => IF ToComps[Len(ToComps)].kind = "Normal"
              THEN components(stripped_path[1]) = <<ToComps[Len(ToComps)]>>
              ELSE stripped_path[1] = <<>>

\* C8 witness: a path of two components was stripped to its final component
C8_Witness ==
    /\ Stripped
    /\ strip_value[1] >= 2
    /\ Len(ToComps) = 2
    /\ stripped_path[1] = ToComps[2].name
    /\ ToComps[2].kind = "Normal"

\* C12 as stated: with auto-detect, resolving never fails, and when from_path and
\* to_path share no trailing component the strip level is 0 and the output path
\* is the to_path.
C12_NoneSharedIsZero ==
    /\ AutoResolved => strip_value[1] \in Nat
    /\ (AutoResolved /\ SharedTrailing(FromComps, ToComps) = 0)
       => /\ strip_value[1] = 0
          /\ stripped_path # <<>> => stripped_path[1] = to_path

\* C12 as amended: with auto-detect, resolving never fails and gives a level
\* between 0 and the number of components of from_path; when the paths share no
\* trailing component the level is the number of components of from_path, which
\* is 0 (nothing is stripped) only for an empty from_path.
C12_NoneSharedIsFromCount ==
    /\ AutoResolved => strip_value[1] \in 0..Len(FromComps)
    /\ (AutoResolved /\ SharedTrailing(FromComps, ToComps) = 0)
       => /\ strip_value[1] = Len(FromComps)
          /\ strip_value[1] = 0 <=> from_path = <<>>
          /\ (from_path = <<>> /\ stripped_path # <<>>) => stripped_path[1] = to_path

\* C12 witness: a strip level was auto-detected and applied for two paths of two
\* components that share no trailing component
C12_Witness ==
    /\ AutoResolved
    /\ stripped_path # <<>>
    /\ Len(FromComps) = 2 /\ Len(ToComps) = 2
    /\ SharedTrailing(FromComps, ToComps) = 0

\* C16: for every to_path and every strip level, explicit or auto-detected, the
\* path handed to the sink has no root component, and the file written for it
\* lies under the target root directory.
C16_RelativeOutputPath ==
    (Stripped /\ outcome(stripped_path[1]) = "written")
        => /\ \A k \in 1..Len(components(stripped_path[1])) :
                  components(stripped_path[1])[k].kind # "RootDir"
           /\ output_file(stripped_path[1]).under_target

-----------------------------------------------------------------------------
(* Claims about the line writer (specification SpecMask) *)

WellFormedRange(r) == r.start # <<>> /\ (r.count = <<>> \/ r.count[1] # <<>>)

\* The drawn line matches the grammar of its form:
\* @@ -<start>[,<count>] +<start>[,<count>] @@<tail>, or the same with @@@ and
\* a second "-" range
WellFormed(h) ==
    /\ WellFormedRange(h.a)
    /\ h.form = "three" => WellFormedRange(h.b)
    /\ WellFormedRange(h.c)
    /\ h.spaced

\* A range with every digit of its start replaced by X, its count unchanged
MaskedRange(sign, r) ==
    <<" ", sign>> \o [i \in 1..Len(r.start) |-> "X"]
    \o (IF r.count = <<>> THEN <<>> ELSE <<",">> \o r.count[1])

\* The header the claim expects for a well-formed line
MaskedHeader(h) ==
    Delim(h.form) \o MaskedRange("-", h.a)
    \o (IF h.form = "three" THEN MaskedRange("-", h.b) ELSE <<>>)
    \o MaskedRange("+", h.c) \o <<" ">> \o Delim(h.form)

MaskedRun == hunk # <<>> /\ hunk_out # <<>> /\ hunk_out[1].mask

ExFoo ==
    <<"@", "@", " ", "-", "1", "0", ",", "5", " ", "+", "2", "0", ",", "5", " ", "@", "@",
      " ", "f", "n", " ", "f", "o", "o", "(", ")", " ", "{", "\n">>
ExFooMasked ==
    <<"@", "@", " ", "-", "X", "X", ",", "5", " ", "+", "X", "X", ",", "5", " ", "@", "@",
      " ", "f", "n", " ", "f", "o", "o", "(", ")", " ", "{", "\n">>
ExCombined ==
    <<"@", "@", "@", " ", "-", "1", ",", "3", " ", "-", "1", ",", "3", " ", "+", "1", ",",
      "4", " ", "@", "@", "@", "\n">>
ExCombinedMasked ==
    <<"@", "@", "@", " ", "-", "X", ",", "3", " ", "-", "X", ",", "3", " ", "+", "X", ",",
      "4", " ", "@", "@", "@", "\n">>

\* C4: with masking enabled, a line that matches the two-file or the three-file
\* grammar is written with every digit of each start field replaced by X and its
\* counts, signs, commas, spaces and delimiters unchanged (the header of the
\* written line, up to its closing delimiter, is the masked header); the two
\* examples of the spec are written as the spec says.
C4_MaskedHeader ==
    /\ (MaskedRun /\ WellFormed(hunk[1]))
       => /\ Len(hunk_out[1].chunk) >= Len(HunkHeader(hunk[1]))
          /\ SubSeq(hunk_out[1].chunk, 1, Len(HunkHeader(hunk[1])))
                 = MaskedHeader(hunk[1])
    /\ write_line(ExFoo, TRUE) = ExFooMasked
    /\ write_line(ExCombined, TRUE) = ExCombinedMasked

\* C4 witness: a three-file header with a start of two digits and a count was
\* written masked
C4_Witness ==
    /\ MaskedRun
    /\ WellFormed(hunk[1])
    /\ hunk[1].form = "three"
    /\ Len(hunk[1].a.start) = 2
    /\ hunk[1].a.count # <<>>
    /\ hunk[1].c.count = <<>>

\* C5: with masking enabled, a line that begins with "@@ " or "@@@ " and does
\* not match the grammar is written unmodified: the same bytes, tail and line
\* terminator included.
C5_UnmatchedUnmodified ==
    (MaskedRun /\ ~WellFormed(hunk[1]))
        => hunk_out[1].chunk = HunkLine(hunk[1])

\* C11: with masking enabled, a line that matches the grammar is written as its
\* masked header followed by its tail, byte for byte (also when the tail holds
\* the delimiter or digits), and by its original line terminator.
C11_TailPreserved ==
    (MaskedRun /\ WellFormed(hunk[1]))
        => hunk_out[1].chunk
               = MaskedHeader(hunk[1]) \o hunk[1].tail \o hunk[1].term

====
